---- MODULE Spec2Model ----
(***************************************************************************)
(* Session and authenticated-request layer of the Sweet Shop front end.    *)
(*                                                                         *)
(* The repository holds two prototype variants of the same application:    *)
(*   "axios": src/src/api/api.ts + src/src/context/AuthContext.tsx, with   *)
(*            the pages src/unnamed/part_000 (Admin), part_001 (Dashboard) *)
(*            and the SweetItem component;                                 *)
(*   "fetch": the single-file application src/unnamed/part_002 (apiFetch,  *)
(*            AuthProvider, LoginForm, RegisterForm, MainApp).             *)
(* A run of the model is a run of one variant; the variable `variant` is   *)
(* fixed by Init.                                                          *)
(***************************************************************************)
EXTENDS Integers, Sequences, FiniteSets, TLC

(***************************************************************************)
(* JavaScript values.  Every value is a record [ty, v] so that values of   *)
(* different JavaScript types can be compared and put in one set.          *)
(***************************************************************************)
Undef == [ty |-> "undefined", v |-> "undefined"]
Null == [ty |-> "null", v |-> "null"]
Str(s) == [ty |-> "string", v |-> s]
Num(n) == [ty |-> "number", v |-> n]
Bool(b) == [ty |-> "boolean", v |-> b]
Obj(f) == [ty |-> "object", v |-> f]
Arr(s) == [ty |-> "array", v |-> s]
ErrorObj(f) == [ty |-> "error", v |-> f]

\* o[k] / o.k: a property the object does not have reads as undefined, and so
\* does any property of a string primitive.
Get(o, k) == IF o.ty \in {"object", "error"} /\ k \in DOMAIN o.v THEN o.v[k] ELSE Undef

\* JavaScript truthiness, as used by `if (token)`, `u ? ... : null`, `a || b`.
Truthy(x) ==
  CASE x.ty \in {"undefined", "null"} -> FALSE
    [] x.ty = "string" -> x.v # ""
    [] x.ty = "number" -> x.v # 0
    [] x.ty = "boolean" -> x.v
    [] OTHER -> TRUE

\* A session field is present when it is neither null nor undefined.
Present(x) == x.ty \notin {"undefined", "null"}

\* String(x): the conversion localStorage.setItem and template literals apply.
JsString(x) ==
  CASE x.ty = "string" -> x.v
    [] x.ty = "undefined" -> "undefined"
    [] x.ty = "null" -> "null"
    [] x.ty = "number" -> ToString(x.v)
    [] x.ty = "boolean" -> IF x.v THEN "true" ELSE "false"
    [] OTHER -> "[object Object]"

(***************************************************************************)
(* The data of the runs: two tokens, two users, two catalogues.            *)
(***************************************************************************)
Tokens == {"t1", "t2"}

User1 == Obj([id |-> Str("1"), name |-> Str("A"), isAdmin |-> Bool(FALSE)])
User2 == Obj([id |-> Str("2"), name |-> Str("B"), isAdmin |-> Bool(TRUE)])
Users == {User1, User2}

Sweet1 == Obj([id |-> Str("s1"), name |-> Str("Ladoo"), quantity |-> Num(3)])
Sweets0 == Arr(<<>>)
Sweets1 == Arr(<<Sweet1>>)

AuthResp(t, u) == Obj([user |-> u, token |-> Str(t)])
UserOnlyResp == Obj([user |-> User1])
EmptyResp == Obj([k \in {} |-> Undef])
MessageResp == Obj([message |-> Str("Invalid credentials")])

(***************************************************************************)
(* JSON text.  JsonTable pairs each JSON text of the runs with the value   *)
(* it denotes; any other text is not JSON and JSON.parse throws on it.     *)
(***************************************************************************)
User1Json == "{\"id\":\"1\",\"name\":\"A\",\"isAdmin\":false}"
User2Json == "{\"id\":\"2\",\"name\":\"B\",\"isAdmin\":true}"
Auth1Json == "{\"user\":{\"id\":\"1\",\"name\":\"A\",\"isAdmin\":false},\"token\":\"t1\"}"
Auth2Json == "{\"user\":{\"id\":\"2\",\"name\":\"B\",\"isAdmin\":true},\"token\":\"t2\"}"
UserOnlyJson == "{\"user\":{\"id\":\"1\",\"name\":\"A\",\"isAdmin\":false}}"
EmptyJson == "{}"
MessageJson == "{\"message\":\"Invalid credentials\"}"
Sweets0Json == "[]"
Sweets1Json == "[{\"id\":\"s1\",\"name\":\"Ladoo\",\"quantity\":3}]"
HtmlText == "<html>Bad Gateway</html>"

JsonTable ==
  { [text |-> User1Json, val |-> User1],
    [text |-> User2Json, val |-> User2],
    [text |-> Auth1Json, val |-> AuthResp("t1", User1)],
    [text |-> Auth2Json, val |-> AuthResp("t2", User2)],
    [text |-> UserOnlyJson, val |-> UserOnlyResp],
    [text |-> EmptyJson, val |-> EmptyResp],
    [text |-> MessageJson, val |-> MessageResp],
    [text |-> Sweets0Json, val |-> Sweets0],
    [text |-> Sweets1Json, val |-> Sweets1] }

IsJsonText(text) == \E e \in JsonTable : e.text = text

\* JSON.parse(text): the value, or a thrown SyntaxError (ok = FALSE).
JSONparse(text) ==
  IF IsJsonText(text)
    THEN [ok |-> TRUE, val |-> (CHOOSE e \in JsonTable : e.text = text).val]
    ELSE [ok |-> FALSE, val |-> Undef]

\* JSON.stringify(x): a string, or undefined when x is undefined.
JSONstringify(x) ==
  IF x.ty = "undefined" THEN Undef
  ELSE IF \E e \in JsonTable : e.val = x
    THEN Str((CHOOSE e \in JsonTable : e.val = x).text)
    ELSE Str(JsString(x))

(***************************************************************************)
(* HTTP responses.  A request ends in a response (status, content-type     *)
(* header, body text) or in no response at all (a network failure).        *)
(***************************************************************************)
Statuses == {200, 299, 304, 400, 401, 599}
ContentTypes == {Null, Str("application/json"), Str("application/json; charset=utf-8"), Str("text/html")}
Bodies == {"", Auth1Json, Auth2Json, UserOnlyJson, EmptyJson, MessageJson,
           Sweets0Json, Sweets1Json, HtmlText}

NetworkFailure == [kind |-> "network", status |-> 0, ct |-> Null, body |-> ""]
HttpResponses ==
  [kind : {"http"}, status : Statuses, ct : ContentTypes, body : Bodies]
Responses == HttpResponses \cup {NetworkFailure}

\* The responses the session runs draw from: a success and a refusal, each as
\* JSON and as something else, and no response at all.  A refusal carries a
\* message or an error page.
SessionResponses ==
  {r \in Responses :
     r.kind = "http" =>
       /\ r.status \in {200, 401}
       /\ r.ct \in {Str("application/json"), Str("text/html")}
       /\ r.status = 401 => r.body \in {MessageJson, HtmlText}}

\* What the backend may answer on /auth/login and /auth/register.
AuthResponses ==
  {r \in SessionResponses : r.body \notin {Sweets0Json, Sweets1Json, MessageJson} \/ r.status = 401}
\* What the backend may answer on /sweets and /sweets/:id/purchase: a success
\* carries a JSON catalogue (for a purchase the body is ignored).
SweetsResponses ==
  {r \in SessionResponses :
     (r.kind = "http" /\ r.status = 200) =>
       (r.ct = Str("application/json") /\ r.body \in {Sweets0Json, Sweets1Json})}

\* How the claims class a response: none at all, a success status, any other.
RespClass(res) ==
  IF res.kind = "network" THEN "noresponse"
  ELSE IF res.status \in 200..299 THEN "success" ELSE "refused"

\* The class of a response to /auth/login or /auth/register: among the
\* successes, those whose body is a JSON object without a token (such as {})
\* are told apart.
HasNoToken(res) ==
  /\ JSONparse(res.body).ok
  /\ JSONparse(res.body).val.ty = "object"
  /\ ~Present(Get(JSONparse(res.body).val, "token"))
AuthRespClass(res) ==
  IF RespClass(res) = "success" /\ HasNoToken(res) THEN "success_notoken" ELSE RespClass(res)

\* A status test that lets client errors pass.
ResOkBelow500(status) == status >= 200 /\ status < 500

\* Response.ok of the Fetch API, read at `if (!res.ok)`.
ResOk(status) == status >= 200 /\ status <= 299

\* contentType.includes("application/json")
IncludesJson(contentType) ==
  contentType \in {"application/json", "application/json; charset=utf-8"}

\* The Authorization header `Bearer ${token}`.
Bearer(tok) == Str("Bearer " \o JsString(tok))

\* apiFetch, request side: the Authorization header it sends (Undef: none),
\* from the token it reads in durable storage on every call.
ApiFetchAuthorization(store) ==
  IF Truthy(store.token) THEN Bearer(store.token) ELSE Undef

\* A content-type test by equality: a charset parameter hides the JSON.
ApiFetchDataExactType(res) ==
  LET text == res.body
      contentType == IF Truthy(res.ct) THEN res.ct.v ELSE ""
  IN IF contentType = "application/json" /\ text # ""
       THEN (IF JSONparse(text).ok THEN JSONparse(text).val ELSE Str(text))
       ELSE Str(text)

\* apiFetch, response side: `data`, the parsed JSON or the raw text.
ApiFetchData(res) ==
  LET text == res.body
      contentType == IF Truthy(res.ct) THEN res.ct.v ELSE ""
  IN IF IncludesJson(contentType) /\ text # ""
       THEN (IF JSONparse(text).ok THEN JSONparse(text).val ELSE Str(text))
       ELSE Str(text)

\* The TypeError fetch() rejects with when there is no response.
FetchTypeError == ErrorObj([name |-> Str("TypeError"), message |-> Str("Failed to fetch")])

\* A client that reports a network failure as a status rejection.
ApiFetchSettleNetworkAsStatus(res) ==
  IF res.kind = "network"
    THEN [kind |-> "throw", val |-> Obj([status |-> Num(0), data |-> Str("")])]
  ELSE IF ~ResOk(res.status)
    THEN [kind |-> "throw", val |-> Obj([status |-> Num(res.status), data |-> ApiFetchData(res)])]
    ELSE [kind |-> "return", val |-> ApiFetchData(res)]

\* apiFetch, how the call settles: it returns data, or throws.
ApiFetchSettle(res) ==
  IF res.kind = "network"
    THEN [kind |-> "throw", val |-> FetchTypeError]
  ELSE IF ~ResOk(res.status)
    THEN [kind |-> "throw", val |-> Obj([status |-> Num(res.status), data |-> ApiFetchData(res)])]
    ELSE [kind |-> "return", val |-> ApiFetchData(res)]

\* err?.data?.message || fallback, as the forms compute the text they show.
ErrorMessage(err, fallback) ==
  LET m == Get(Get(err, "data"), "message")
  IN IF Truthy(m) THEN m ELSE Str(fallback)

\* The axios instance of api.ts: the body is JSON-parsed when it parses (a
\* parse failure leaves the text), a status outside 200..299 or no response
\* rejects with an AxiosError, anything else resolves with {data, status}.
AxiosData(res) ==
  IF res.body # "" /\ JSONparse(res.body).ok THEN JSONparse(res.body).val ELSE Str(res.body)

AxiosSettle(res) ==
  IF res.kind = "network"
    THEN [kind |-> "throw", val |-> ErrorObj([name |-> Str("AxiosError"), message |-> Str("Network Error")])]
  ELSE IF ~ResOk(res.status)
    THEN [kind |-> "throw",
          val |-> ErrorObj([name |-> Str("AxiosError"),
                            response |-> Obj([status |-> Num(res.status), data |-> AxiosData(res)])])]
    ELSE [kind |-> "return", val |-> Obj([data |-> AxiosData(res), status |-> Num(res.status)])]

\* setAuthToken(token): the new value of api.defaults.headers.common.Authorization.
setAuthToken(tok) == IF Truthy(tok) THEN Bearer(tok) ELSE Undef

(***************************************************************************)
(* State.                                                                  *)
(*   variant     which prototype runs ("axios" or "fetch")                 *)
(*   storage     localStorage: the entries "token" and "user" (Null: no    *)
(*               entry, else the stored string)                            *)
(*   token,user  the AuthProvider's useState cells                         *)
(*   authHeader  api.defaults.headers.common.Authorization of the axios    *)
(*               instance (module state, lost on a page load)              *)
(*   inflight    the requests awaiting their response, oldest first        *)
(*   sweets      the catalogue page's useState cell                        *)
(*   loading     MainApp's loading flag                                    *)
(*   editing     MainApp's `editing` cell: the sweet the edit form shows   *)
(*   tab         MainApp's `tab` cell: which form an anonymous visitor     *)
(*               sees                                                      *)
(*   error,busy  "fetch": the `error` and `loading` cells of the component *)
(*               the side column shows (LoginForm, RegisterForm or         *)
(*               AdminPanel; the entries of the others are null, a         *)
(*               component that mounts starts with null and false).        *)
(*               "axios": error holds the name of the error the caller's   *)
(*               await of login / register threw                           *)
(*   saving      "fetch": the `loading` cell of the EditSweetForm on the   *)
(*               page (false when none is)                                 *)
(*   reloading   "axios": window.location.reload() has been called and the *)
(*               new document has not arrived yet; the page runs on        *)
(*               meanwhile                                                 *)
(* Observers (never read by an action's guard or effect on the above):     *)
(*   sent        the Authorization header of the request started last,     *)
(*               with lastAuth and restored as they were at that moment    *)
(*   lastAuth    the last login that succeeded or logout that was called   *)
(*   restored    the token the last startup found in storage, until a      *)
(*               login succeeds or logout is called                        *)
(*   established a login or register has succeeded and logout has not been *)
(*               called since                                              *)
(*   lastOp      the step taken last; for a step that handles a response,  *)
(*               the operation and the class of the response               *)
(*               (RespClass; AuthRespClass for a login or register)        *)
(*   resp,outcome  the response apiFetch got last and how it settled       *)
(*   fetched     of the GET /sweets responses handled since the page load: *)
(*               `applied` the body of the successful one handled last,    *)
(*               `newest` the body of the successful one whose request     *)
(*               started latest, `stale` how many GET /sweets requests     *)
(*               that started before that one still await their response   *)
(*   loggedOut   `out`: logout has been called and no response has arrived *)
(*               since to a login or register submitted after it;          *)
(*               `pending`: how many login / register requests submitted   *)
(*               before that logout still await their response             *)
(***************************************************************************)
VARIABLES variant, storage, token, user, authHeader, inflight, sweets, loading,
          error, sent, lastAuth, restored, established, lastOp, resp, outcome,
          editing, tab, busy, saving, reloading, fetched, loggedOut

vars == <<variant, storage, token, user, authHeader, inflight, sweets, loading,
          error, sent, lastAuth, restored, established, lastOp, resp, outcome,
          editing, tab, busy, saving, reloading, fetched, loggedOut>>

\* What the program itself holds (no observer).
progVars == <<variant, storage, token, user, authHeader, inflight, sweets, loading, error,
              editing, tab, busy, saving, reloading>>

Variants == {"axios", "fetch"}

\* At most this many requests await a response.
MaxInflight == 2

StoredTokens == {Null, Str("t1"), Str("t2"), Str("undefined")}
StoredUsers == {Null, Str(User1Json), Str(User2Json), Str("undefined"), Str("{corrupt")}

NoErrors == [login |-> Null, register |-> Null, add |-> Null]
NoAuth == [kind |-> "none", tok |-> Null, usr |-> Null]
NoResponse == [kind |-> "none", status |-> 0, ct |-> Null, body |-> ""]
NoOutcome == [kind |-> "none", val |-> Undef]
NoFetched == [applied |-> Null, newest |-> Null, stale |-> 0]
NotLoggedOut == [out |-> FALSE, pending |-> 0]

\* inflight without its i-th request.
Remove(q, i) == SubSeq(q, 1, i - 1) \o SubSeq(q, i + 1, Len(q))

\* How many requests of kind op await their response, and the place of the
\* i-th request among the requests of its kind (1: it started first).
Count(q, op) == Cardinality({j \in DOMAIN q : q[j] = op})
Rank(q, i) == Cardinality({j \in 1..i : q[j] = q[i]})

\* `loggedOut` after logout has been called, and after the response of the
\* i-th request, a login or register, has arrived: the requests submitted
\* before the logout are the first `pending` of the login / register requests.
AuthRequests(q, i) == Cardinality({j \in 1..i : q[j] \in {"login", "register"}})
LogoutObserved == [out |-> TRUE, pending |-> AuthRequests(inflight, Len(inflight))]
AuthResponseObserved(i) ==
  IF AuthRequests(inflight, i) <= loggedOut.pending
    THEN [loggedOut EXCEPT !.pending = loggedOut.pending - 1]
    ELSE NotLoggedOut

\* What MainApp's side column shows: the form of the tab while auth.user is
\* falsy, the AdminPanel ("add") for an admin, else a card without state.
SideComponent(u, t) ==
  IF ~Truthy(u) THEN t
  ELSE IF Truthy(Get(u, "isAdmin")) THEN "add" ELSE "none"

\* The i-th request, of kind op, was submitted by the component the side
\* column shows now: that component is of this kind, its own request is
\* pending (its button is disabled meanwhile), and no form or panel request
\* started later (the components shown before were unmounted earlier).
\* setError / setLoading of an unmounted component change nothing.
Owns(op, i) ==
  /\ SideComponent(user, tab) = (IF op = "create" THEN "add" ELSE op)
  /\ busy
  /\ \A k \in DOMAIN inflight : k > i => inflight[k] \notin {"login", "register", "create"}

\* The value a response body denotes: the JSON value, or the text itself.
BodyValue(res) == IF JSONparse(res.body).ok THEN JSONparse(res.body).val ELSE Str(res.body)

\* `fetched` after the response res of the i-th request, a GET /sweets, has
\* been handled.
FetchObserved(i, res) ==
  LET r == Rank(inflight, i)
      ok == RespClass(res) = "success"
  IN IF r <= fetched.stale
       THEN [fetched EXCEPT !.stale = fetched.stale - 1,
                            !.applied = IF ok THEN BodyValue(res) ELSE fetched.applied]
     ELSE IF ok
       THEN [applied |-> BodyValue(res), newest |-> BodyValue(res), stale |-> r - 1]
     ELSE fetched

\* useState initializer of `token`: localStorage.getItem("token").
RestoreToken(store) == store.token

\* An initializer without the try/catch: the SyntaxError of JSON.parse leaves
\* the initializer (and the render that runs it).
RestoreUserUncaught(store) ==
  LET u == store.user
  IN IF Truthy(u)
       THEN (IF JSONparse(u.v).ok THEN JSONparse(u.v).val
             ELSE ErrorObj([name |-> Str("SyntaxError")]))
       ELSE Null

\* useState initializer of `user` ("fetch"): the parsed entry, null when there
\* is none or when JSON.parse throws.
RestoreUser(store) ==
  LET u == store.user
  IN IF Truthy(u)
       THEN (IF JSONparse(u.v).ok THEN JSONparse(u.v).val ELSE Null)
       ELSE Null

\* The Authorization header a request started now carries.
HeaderNow(v, store, hdr) ==
  IF v = "fetch" THEN ApiFetchAuthorization(store) ELSE hdr

\* A page load: the AuthProvider restores the session from storage, the axios
\* module is evaluated afresh (no default Authorization header), the
\* catalogue page (MainApp / Dashboard) mounts with an empty list and its
\* effect starts GET /sweets.  Requests of the previous page are gone, and
\* so is a reload that was under way.
PageLoad(store) ==
  /\ token' = RestoreToken(store)
  /\ user' = IF variant = "fetch" THEN RestoreUser(store) ELSE Null
  /\ authHeader' = Undef
  /\ inflight' = <<"getSweets">>
  /\ sweets' = Arr(<<>>)
  /\ loading' = (variant = "fetch")
  /\ error' = NoErrors
  /\ editing' = Null
  /\ tab' = "login"
  /\ busy' = FALSE
  /\ saving' = FALSE
  /\ reloading' = FALSE
  /\ fetched' = NoFetched
  /\ loggedOut' = [loggedOut EXCEPT !.pending = 0]
  /\ restored' = RestoreToken(store)
  /\ sent' = [hdr |-> HeaderNow(variant, store, Undef), auth |-> lastAuth,
              restored |-> RestoreToken(store)]
  /\ lastOp' = "startup"

\* The "axios" variant never reads or writes the "user" entry, so it starts
\* without one; the "fetch" variant starts from any content of both entries.
\* A token found in storage at the first startup counts as left there by an
\* earlier successful login (established).
Init ==
  /\ variant \in Variants
  /\ storage \in [token : StoredTokens,
                  user : IF variant = "fetch" THEN StoredUsers ELSE {Null}]
  /\ token = RestoreToken(storage)
  /\ user = IF variant = "fetch" THEN RestoreUser(storage) ELSE Null
  /\ authHeader = Undef
  /\ inflight = <<"getSweets">>
  /\ sweets = Arr(<<>>)
  /\ loading = (variant = "fetch")
  /\ error = NoErrors
  /\ lastAuth = NoAuth
  /\ restored = RestoreToken(storage)
  /\ established = Present(RestoreToken(storage))
  /\ sent = [hdr |-> HeaderNow(variant, storage, Undef), auth |-> NoAuth,
             restored |-> RestoreToken(storage)]
  /\ lastOp = "startup"
  /\ resp = NoResponse
  /\ outcome = NoOutcome
  /\ editing = Null
  /\ tab = "login"
  /\ busy = FALSE
  /\ saving = FALSE
  /\ reloading = FALSE
  /\ fetched = NoFetched
  /\ loggedOut = NotLoggedOut

\* The browser reloads the page (the user asks for it).
Reload ==
  /\ PageLoad(storage)
  /\ UNCHANGED <<variant, storage, lastAuth, established, resp, outcome>>

(***************************************************************************)
(* Variant "fetch" (src/unnamed/part_002).                                 *)
(***************************************************************************)

\* AuthProvider.login(newToken, newUser): both entries and both cells.
AuthProviderLogin(newToken, newUser) ==
  /\ storage' = [token |-> Str(JsString(newToken)),
                 user |-> Str(JsString(JSONstringify(newUser)))]
  /\ token' = newToken
  /\ user' = newUser

\* AuthProvider.logout(): a variant that forgets the "user" entry.
AuthProviderLogoutKeepsUser ==
  /\ storage' = [storage EXCEPT !.token = Null]
  /\ token' = Null
  /\ user' = Null

\* AuthProvider.logout().
AuthProviderLogout ==
  /\ storage' = [token |-> Null, user |-> Null]
  /\ token' = Null
  /\ user' = Null

\* MainApp.fetchSweets(), up to its await: the loading flag and the request.
\* `store` is the storage the call reads, `auth` and `rest` the observers'
\* values at that moment.
StartFetchSweets(q, store, auth, rest) ==
  /\ loading' = TRUE
  /\ inflight' = Append(q, "getSweets")
  /\ sent' = [hdr |-> ApiFetchAuthorization(store), auth |-> auth, restored |-> rest]

\* LoginForm.handleSubmit / RegisterForm.handleSubmit, up to the await.  The
\* forms are rendered while auth.user is falsy; a form's submit button is
\* disabled while its own request is pending, but switching tabs mounts a
\* fresh form, so a submission does not have to wait for an earlier one.
FormSubmit(op) ==
  /\ variant = "fetch"
  /\ ~Truthy(user)
  /\ tab = op
  /\ ~busy
  /\ Len(inflight) < MaxInflight
  /\ busy' = TRUE
  /\ error' = [error EXCEPT ![op] = Null]
  /\ inflight' = Append(inflight, op)
  /\ sent' = [hdr |-> ApiFetchAuthorization(storage), auth |-> lastAuth, restored |-> restored]
  /\ lastOp' = op \o "_submit"
  /\ UNCHANGED <<variant, reloading, saving, storage, token, user, authHeader, sweets, loading,
                 lastAuth, restored, established, resp, outcome, tab, loggedOut, editing, fetched>>

\* A handler that swallows the rejection.
FormRejectedSwallowed(op, i, res, fallback) ==
  /\ busy' = IF Owns(op, i) THEN FALSE ELSE busy
  /\ inflight' = Remove(inflight, i)
  /\ lastOp' = op \o "_" \o RespClass(res)
  /\ loggedOut' = AuthResponseObserved(i)
  /\ UNCHANGED <<variant, reloading, saving, storage, token, user, authHeader, sweets, loading, error,
                 sent, lastAuth, restored, established, resp, outcome, tab, editing, fetched>>

\* The catch branch of a form's handleSubmit.
FormRejected(op, i, res, fallback) ==
  /\ error' = IF Owns(op, i)
                THEN [error EXCEPT ![op] = ErrorMessage(ApiFetchSettle(res).val, fallback)]
                ELSE error
  /\ busy' = IF Owns(op, i) THEN FALSE ELSE busy
  /\ inflight' = Remove(inflight, i)
  /\ lastOp' = op \o "_" \o RespClass(res)
  /\ loggedOut' = AuthResponseObserved(i)
  /\ UNCHANGED <<variant, reloading, saving, storage, token, user, authHeader, sweets, loading,
                 sent, lastAuth, restored, established, resp, outcome, tab, editing, fetched>>

\* The rest of handleSubmit, once apiFetch has settled with `res`:
\* auth.login(resp.token, resp.user) and onSuccess (fetchSweets), or the
\* catch branch.
FormSettle(op, fallback) ==
  \E i \in DOMAIN inflight, res \in AuthResponses :
    /\ variant = "fetch"
    /\ inflight[i] = op
    /\ LET out == ApiFetchSettle(res)
           newToken == Get(out.val, "token")
           newUser == Get(out.val, "user")
           auth == [kind |-> "login", tok |-> newToken, usr |-> newUser]
           kept == SideComponent(newUser, tab) = SideComponent(user, tab)
       IN IF out.kind = "return"
            THEN /\ AuthProviderLogin(newToken, newUser)
                 /\ StartFetchSweets(Remove(inflight, i), storage', auth, Undef)
                 /\ error' = IF kept THEN error ELSE NoErrors
                 /\ busy' = IF kept /\ ~Owns(op, i) THEN busy ELSE FALSE
                 /\ lastAuth' = auth
                 /\ restored' = Undef
                 /\ established' = TRUE
                 /\ lastOp' = op \o "_" \o AuthRespClass(res)
                 /\ loggedOut' = AuthResponseObserved(i)
                 /\ UNCHANGED <<variant, reloading, saving, authHeader, sweets, resp, outcome, tab, editing, fetched>>
            ELSE FormRejected(op, i, res, fallback)

LoginFormSubmit == FormSubmit("login")
LoginFormSettle == FormSettle("login", "Login failed")
RegisterFormSubmit == FormSubmit("register")
RegisterFormSettle == FormSettle("register", "Registration failed")

\* The header's Sign in / Register buttons, shown while auth.user is falsy:
\* setTab(t).  The other form mounts, with fresh cells.
SetTab ==
  \E t \in {"login", "register"} :
    /\ variant = "fetch"
    /\ ~Truthy(user)
    /\ t # tab
    /\ tab' = t
    /\ error' = NoErrors
    /\ busy' = FALSE
    /\ lastOp' = "tab_" \o t
    /\ UNCHANGED <<variant, reloading, saving, storage, token, user, authHeader, inflight, sweets, loading,
                   sent, lastAuth, restored, established, resp, outcome, loggedOut,
                   editing, fetched>>

\* The header's Logout button, shown while auth.user is truthy:
\* auth.logout().  The side column then shows the form of the tab, mounted
\* afresh.
Logout ==
  /\ variant = "fetch"
  /\ Truthy(user)
  /\ AuthProviderLogout
  /\ error' = NoErrors
  /\ busy' = FALSE
  /\ lastAuth' = [kind |-> "logout", tok |-> Null, usr |-> Null]
  /\ restored' = Undef
  /\ established' = FALSE
  /\ lastOp' = "logout"
  /\ loggedOut' = LogoutObserved
  /\ UNCHANGED <<variant, reloading, saving, authHeader, inflight, sweets, loading, sent, resp, outcome, tab,
                 editing, fetched>>

\* MainApp.fetchSweets(), after the await: the list is replaced by the
\* response (data || []), a failure is logged; finally loading is reset.
\* (The category list is computed from the same data and is not kept here.)
FetchSweetsReturn(i, res) ==
  /\ variant = "fetch"
  /\ inflight[i] = "getSweets"
  /\ LET out == ApiFetchSettle(res)
     IN IF out.kind = "return"
          THEN sweets' = IF Truthy(out.val) THEN out.val ELSE Arr(<<>>)
          ELSE sweets' = sweets
  /\ lastOp' = "fetch_" \o RespClass(res)
  /\ loading' = FALSE
  /\ inflight' = Remove(inflight, i)
  /\ UNCHANGED <<variant, reloading, saving, storage, token, user, authHeader, error, sent,
                 lastAuth, restored, established, resp, outcome, tab, busy, loggedOut, editing>>

\* The step as the session runs take it (the order of the fetches is not
\* recorded) ...
FetchSweetsSettle ==
  \E i \in DOMAIN inflight, res \in SweetsResponses :
    FetchSweetsReturn(i, res) /\ UNCHANGED fetched

\* ... and as the catalogue runs take it.
FetchSweetsSettleInOrder ==
  \E i \in DOMAIN inflight, res \in SweetsResponses :
    FetchSweetsReturn(i, res) /\ fetched' = FetchObserved(i, res)

\* A card's Purchase button is enabled for a listed sweet with quantity > 0;
\* the cards are not rendered while loading.
CanPurchase(list) ==
  /\ list.ty = "array"
  /\ \E k \in DOMAIN list.v : Get(list.v[k], "quantity").v > 0

\* MainApp.handlePurchase(s) with a valid quantity, up to the await (with a
\* cancelled prompt or an invalid quantity it returns and changes nothing).
HandlePurchaseSubmit ==
  /\ variant = "fetch"
  /\ ~loading
  /\ CanPurchase(sweets)
  /\ Len(inflight) < MaxInflight
  /\ inflight' = Append(inflight, "purchase")
  /\ sent' = [hdr |-> ApiFetchAuthorization(storage), auth |-> lastAuth, restored |-> restored]
  /\ lastOp' = "purchase_submit"
  /\ UNCHANGED <<variant, reloading, saving, storage, token, user, authHeader, sweets, loading, error,
                 lastAuth, restored, established, resp, outcome, tab, busy, loggedOut, editing, fetched>>

\* MainApp.handlePurchase(s), after the await: fetchSweets() on success, an
\* alert on failure.
HandlePurchaseSettle ==
  \E i \in DOMAIN inflight, res \in SweetsResponses :
    /\ variant = "fetch"
    /\ inflight[i] = "purchase"
    /\ LET out == ApiFetchSettle(res)
       IN IF out.kind = "return"
            THEN /\ StartFetchSweets(Remove(inflight, i), storage, lastAuth, restored)
                 /\ lastOp' = "purchase_" \o RespClass(res)
            ELSE /\ inflight' = Remove(inflight, i)
                 /\ lastOp' = "purchase_" \o RespClass(res)
                 /\ UNCHANGED <<loading, sent>>
    /\ UNCHANGED <<variant, reloading, saving, storage, token, user, authHeader, sweets, error,
                   lastAuth, restored, established, resp, outcome, tab, busy, loggedOut, editing, fetched>>

(***************************************************************************)
(* Variant "axios" (src/src/context/AuthContext.tsx, src/src/api/api.ts,   *)
(* the pages and SweetItem).  Its session is the token alone.              *)
(***************************************************************************)

\* login(email, password) / register(email, password, name), up to the await
\* of api.post.
AuthContextCall(op) ==
  /\ variant = "axios"
  /\ Len(inflight) < MaxInflight
  /\ inflight' = Append(inflight, op)
  /\ sent' = [hdr |-> authHeader, auth |-> lastAuth, restored |-> restored]
  /\ lastOp' = op \o "_submit"
  /\ UNCHANGED <<variant, reloading, saving, storage, token, user, authHeader, sweets, loading, error,
                 lastAuth, restored, established, resp, outcome, tab, busy, loggedOut, editing, fetched>>

\* The awaited api.post rejected: login / register reject with the same
\* error, nothing else ran.
AuthContextRejected(op, i, res) ==
  /\ error' = [error EXCEPT ![op] = Get(AxiosSettle(res).val, "name")]
  /\ inflight' = Remove(inflight, i)
  /\ lastOp' = op \o "_" \o RespClass(res)
  /\ loggedOut' = AuthResponseObserved(i)
  /\ UNCHANGED <<variant, reloading, saving, storage, token, user, authHeader, sweets, loading,
                 sent, lastAuth, restored, established, resp, outcome, tab, busy, editing, fetched>>

AuthContextLoginCall == AuthContextCall("login")
AuthContextRegisterCall == AuthContextCall("register")

\* login, after the await: setToken, localStorage.setItem, setAuthToken.
AuthContextLoginSettle ==
  \E i \in DOMAIN inflight, res \in AuthResponses :
    /\ variant = "axios"
    /\ inflight[i] = "login"
    /\ LET out == AxiosSettle(res)
           data == Get(out.val, "data")
           newToken == Get(data, "token")
       IN IF out.kind = "return"
            THEN /\ token' = newToken
                 /\ storage' = [storage EXCEPT !.token = Str(JsString(newToken))]
                 /\ authHeader' = setAuthToken(newToken)
                 /\ inflight' = Remove(inflight, i)
                 /\ lastAuth' = [kind |-> "login", tok |-> newToken, usr |-> Get(data, "user")]
                 /\ restored' = Undef
                 /\ established' = TRUE
                 /\ lastOp' = "login_" \o AuthRespClass(res)
                 /\ loggedOut' = AuthResponseObserved(i)
                 /\ UNCHANGED <<variant, reloading, saving, user, sweets, loading, error, sent, resp, outcome, tab, busy, editing, fetched>>
            ELSE AuthContextRejected("login", i, res)

\* register, after the await: nothing is kept of the response.
AuthContextRegisterSettle ==
  \E i \in DOMAIN inflight, res \in AuthResponses :
    /\ variant = "axios"
    /\ inflight[i] = "register"
    /\ LET out == AxiosSettle(res)
       IN IF out.kind = "return"
            THEN /\ inflight' = Remove(inflight, i)
                 /\ established' = TRUE
                 /\ lastOp' = "register_" \o AuthRespClass(res)
                 /\ loggedOut' = AuthResponseObserved(i)
                 /\ UNCHANGED <<variant, reloading, saving, storage, token, user, authHeader, sweets, loading,
                                error, sent, lastAuth, restored, resp, outcome, tab, busy, editing, fetched>>
            ELSE AuthContextRejected("register", i, res)

\* logout(): setToken(null), removeItem("token"), setAuthToken(null).
AuthContextLogout ==
  /\ variant = "axios"
  /\ token' = Null
  /\ storage' = [storage EXCEPT !.token = Null]
  /\ authHeader' = setAuthToken(Null)
  /\ lastAuth' = [kind |-> "logout", tok |-> Null, usr |-> Null]
  /\ restored' = Undef
  /\ established' = FALSE
  /\ lastOp' = "logout"
  /\ loggedOut' = LogoutObserved
  /\ UNCHANGED <<variant, reloading, saving, user, inflight, sweets, loading, error, sent, resp, outcome, tab, busy, editing, fetched>>

\* Dashboard.fetchSweets, after the await: setSweets(res.data); a rejection
\* is not caught and changes nothing.
DashboardFetchReturn(i, res) ==
  /\ variant = "axios"
  /\ inflight[i] = "getSweets"
  /\ LET out == AxiosSettle(res)
     IN IF out.kind = "return"
          THEN sweets' = Get(out.val, "data")
          ELSE sweets' = sweets
  /\ lastOp' = "fetch_" \o RespClass(res)
  /\ inflight' = Remove(inflight, i)
  /\ UNCHANGED <<variant, reloading, saving, storage, token, user, authHeader, loading, error, sent,
                 lastAuth, restored, established, resp, outcome, tab, busy, loggedOut, editing>>

DashboardFetchSettle ==
  \E i \in DOMAIN inflight, res \in SweetsResponses :
    DashboardFetchReturn(i, res) /\ UNCHANGED fetched

DashboardFetchSettleInOrder ==
  \E i \in DOMAIN inflight, res \in SweetsResponses :
    DashboardFetchReturn(i, res) /\ fetched' = FetchObserved(i, res)

\* SweetItem's button is disabled when sweet.quantity === 0.
CanPurchaseItem(list) ==
  /\ list.ty = "array"
  /\ \E k \in DOMAIN list.v : Get(list.v[k], "quantity") # Num(0)

\* SweetItem.purchase, up to the await of api.post.
SweetItemPurchaseCall ==
  /\ variant = "axios"
  /\ CanPurchaseItem(sweets)
  /\ Len(inflight) < MaxInflight
  /\ inflight' = Append(inflight, "purchase")
  /\ sent' = [hdr |-> authHeader, auth |-> lastAuth, restored |-> restored]
  /\ lastOp' = "purchase_submit"
  /\ UNCHANGED <<variant, reloading, saving, storage, token, user, authHeader, sweets, loading, error,
                 lastAuth, restored, established, resp, outcome, tab, busy, loggedOut, editing, fetched>>

\* SweetItem.purchase, after the await: an alert on either outcome, and
\* window.location.reload() on success.  reload() starts the navigation and
\* returns: the page keeps its state and runs on until the new document
\* arrives (LocationReloadCommit).
SweetItemPurchaseSettle ==
  \E i \in DOMAIN inflight, res \in SweetsResponses :
    /\ variant = "axios"
    /\ inflight[i] = "purchase"
    /\ inflight' = Remove(inflight, i)
    /\ lastOp' = "purchase_" \o RespClass(res)
    /\ reloading' = (reloading \/ AxiosSettle(res).kind = "return")
    /\ UNCHANGED <<variant, saving, storage, token, user, authHeader, sweets, loading,
                   error, sent, lastAuth, restored, established, resp, outcome, tab, busy,
                   loggedOut, editing, fetched>>

\* The document requested by window.location.reload() arrives: a page load.
LocationReloadCommit ==
  /\ reloading
  /\ PageLoad(storage)
  /\ UNCHANGED <<variant, storage, lastAuth, established, resp, outcome>>

(***************************************************************************)
(* Catalogue maintenance: the handlers that create, update and delete      *)
(* sweets.  "fetch": MainApp and AdminPanel (src/unnamed/part_002);        *)
(* "axios": the Admin page (src/unnamed/part_000), which keeps its list    *)
(* and fetches it exactly as Dashboard does and renders the same           *)
(* SweetItem cards.                                                        *)
(***************************************************************************)

\* auth.user?.isAdmin, as the cards and the side panel read it.
IsAdmin(u) == Truthy(u) /\ Truthy(Get(u, "isAdmin"))

\* The list shows at least one card.
Listed(list) == list.ty = "array" /\ Len(list.v) > 0

\* A MainApp / AdminPanel handler, up to its await of apiFetch.
MainAppRequest(op) ==
  /\ variant = "fetch"
  /\ Len(inflight) < MaxInflight
  /\ inflight' = Append(inflight, op)
  /\ sent' = [hdr |-> ApiFetchAuthorization(storage), auth |-> lastAuth, restored |-> restored]
  /\ lastOp' = op \o "_submit"
  /\ UNCHANGED <<variant, reloading, storage, token, user, authHeader, sweets, loading,
                 lastAuth, restored, established, resp, outcome, tab, loggedOut, fetched>>

\* A card's Edit button (admins only, cards rendered): setEditing(ss).  With
\* no edit form on the page one mounts (saving is false then); a form that is
\* on the page stays the same instance and keeps its `loading` cell.
EditOpen ==
  /\ variant = "fetch"
  /\ IsAdmin(user)
  /\ ~loading
  /\ Listed(sweets)
  /\ \E k \in DOMAIN sweets.v : editing' = sweets.v[k]
  /\ lastOp' = "edit_open"
  /\ UNCHANGED <<variant, reloading, saving, storage, token, user, authHeader, inflight, sweets, loading,
                 error, sent, lastAuth, restored, established, resp, outcome, tab, busy, loggedOut, fetched>>

\* The edit form's Cancel button (never disabled): setEditing(null), which
\* unmounts the form.
EditCancel ==
  /\ variant = "fetch"
  /\ Truthy(editing)
  /\ editing' = Null
  /\ saving' = FALSE
  /\ lastOp' = "edit_cancel"
  /\ UNCHANGED <<variant, reloading, storage, token, user, authHeader, inflight, sweets, loading,
                 error, sent, lastAuth, restored, established, resp, outcome, tab, busy, loggedOut, fetched>>

\* The i-th request, a PUT, was submitted by the EditSweetForm on the page:
\* that form's save is pending and no PUT started later (a form cancelled
\* with its PUT pending is unmounted, and its setLoading changes nothing).
SavedBy(i) ==
  /\ Truthy(editing)
  /\ saving
  /\ \A k \in DOMAIN inflight : k > i => inflight[k] # "update"

\* EditSweetForm.submit -> MainApp.handleEditSubmit(updated), up to the await:
\* setLoading(true) and the PUT.  The Save button is disabled by the `loading`
\* cell of the form on the page, so a form opened after a Cancel can save
\* while the PUT of the cancelled form is pending.
HandleEditSubmitCall ==
  /\ Truthy(editing)
  /\ ~saving
  /\ MainAppRequest("update")
  /\ saving' = TRUE
  /\ UNCHANGED <<error, busy, editing>>

\* handleEditSubmit, after the await: setEditing(null), which unmounts the
\* form on the page, and fetchSweets() on success, an alert on failure; then
\* submit's finally: setLoading(false) of the form that submitted.
HandleEditSubmitSettle ==
  \E i \in DOMAIN inflight, res \in SweetsResponses :
    /\ variant = "fetch"
    /\ inflight[i] = "update"
    /\ LET out == ApiFetchSettle(res)
       IN IF out.kind = "return"
            THEN /\ editing' = Null
                 /\ saving' = FALSE
                 /\ StartFetchSweets(Remove(inflight, i), storage, lastAuth, restored)
            ELSE /\ inflight' = Remove(inflight, i)
                 /\ saving' = IF SavedBy(i) THEN FALSE ELSE saving
                 /\ UNCHANGED <<editing, loading, sent>>
    /\ lastOp' = "update_" \o RespClass(res)
    /\ UNCHANGED <<variant, reloading, storage, token, user, authHeader, sweets, error,
                   lastAuth, restored, established, resp, outcome, tab, busy, loggedOut, fetched>>

\* MainApp.handleDelete(s) with the confirmation accepted, up to the await
\* (declined, it returns and changes nothing).
HandleDeleteCall ==
  /\ IsAdmin(user)
  /\ ~loading
  /\ Listed(sweets)
  /\ MainAppRequest("delete")
  /\ UNCHANGED <<error, busy, editing, saving>>

\* A handleDelete that leaves the list as it is.
HandleDeleteSettleNoRefetch ==
  \E i \in DOMAIN inflight, res \in SweetsResponses :
    /\ variant = "fetch"
    /\ inflight[i] = "delete"
    /\ inflight' = Remove(inflight, i)
    /\ lastOp' = "delete_" \o RespClass(res)
    /\ UNCHANGED <<variant, reloading, saving, storage, token, user, authHeader, sweets, loading, error, sent,
                   lastAuth, restored, established, resp, outcome, tab, busy, loggedOut, editing, fetched>>

\* handleDelete, after the await: fetchSweets() on success, an alert on
\* failure.
HandleDeleteSettle ==
  \E i \in DOMAIN inflight, res \in SweetsResponses :
    /\ variant = "fetch"
    /\ inflight[i] = "delete"
    /\ LET out == ApiFetchSettle(res)
       IN IF out.kind = "return"
            THEN StartFetchSweets(Remove(inflight, i), storage, lastAuth, restored)
            ELSE /\ inflight' = Remove(inflight, i)
                 /\ UNCHANGED <<loading, sent>>
    /\ lastOp' = "delete_" \o RespClass(res)
    /\ UNCHANGED <<variant, reloading, saving, storage, token, user, authHeader, sweets, error,
                   lastAuth, restored, established, resp, outcome, tab, busy, loggedOut, editing, fetched>>

\* AdminPanel.handleAdd, up to the await.  The panel is rendered for an admin;
\* its button is disabled while its own request is pending.
AdminPanelHandleAddCall ==
  /\ IsAdmin(user)
  /\ ~busy
  /\ MainAppRequest("create")
  /\ busy' = TRUE
  /\ error' = [error EXCEPT !.add = Null]
  /\ UNCHANGED <<editing, saving>>

\* handleAdd, after the await: the fields are reset and onAdded (fetchSweets)
\* runs on success, the error is shown on failure.
AdminPanelHandleAddSettle ==
  \E i \in DOMAIN inflight, res \in SweetsResponses :
    /\ variant = "fetch"
    /\ inflight[i] = "create"
    /\ LET out == ApiFetchSettle(res)
       IN IF out.kind = "return"
            THEN /\ StartFetchSweets(Remove(inflight, i), storage, lastAuth, restored)
                 /\ UNCHANGED error
            ELSE /\ error' = IF Owns("create", i)
                               THEN [error EXCEPT !.add = ErrorMessage(out.val, "Could not add sweet")]
                               ELSE error
                 /\ inflight' = Remove(inflight, i)
                 /\ UNCHANGED <<loading, sent>>
    /\ busy' = IF Owns("create", i) THEN FALSE ELSE busy
    /\ lastOp' = "create_" \o RespClass(res)
    /\ UNCHANGED <<variant, reloading, saving, storage, token, user, authHeader, sweets,
                   lastAuth, restored, established, resp, outcome, tab, loggedOut, editing, fetched>>

\* Admin.addSweet / Admin.deleteSweet, up to the await of api.post / api.delete.
AdminCall(op) ==
  /\ variant = "axios"
  /\ Len(inflight) < MaxInflight
  /\ inflight' = Append(inflight, op)
  /\ sent' = [hdr |-> authHeader, auth |-> lastAuth, restored |-> restored]
  /\ lastOp' = op \o "_submit"
  /\ UNCHANGED <<variant, reloading, saving, storage, token, user, authHeader, sweets, loading, error,
                 lastAuth, restored, established, resp, outcome, tab, busy, loggedOut, editing, fetched>>

\* addSweet / deleteSweet, after the await: fetchSweets() up to its own await;
\* a rejection is not caught and nothing else runs.
AdminSettle(op) ==
  \E i \in DOMAIN inflight, res \in SweetsResponses :
    /\ variant = "axios"
    /\ inflight[i] = op
    /\ LET out == AxiosSettle(res)
       IN IF out.kind = "return"
            THEN /\ inflight' = Append(Remove(inflight, i), "getSweets")
                 /\ sent' = [hdr |-> authHeader, auth |-> lastAuth, restored |-> restored]
            ELSE /\ inflight' = Remove(inflight, i)
                 /\ UNCHANGED sent
    /\ lastOp' = op \o "_" \o RespClass(res)
    /\ UNCHANGED <<variant, reloading, saving, storage, token, user, authHeader, sweets, loading, error,
                   lastAuth, restored, established, resp, outcome, tab, busy, loggedOut, editing, fetched>>

AdminAddSweetCall == AdminCall("create")
AdminAddSweetSettle == AdminSettle("create")
\* The Delete button belongs to a listed sweet.
AdminDeleteSweetCall == Listed(sweets) /\ AdminCall("delete")
AdminDeleteSweetSettle == AdminSettle("delete")

(***************************************************************************)
(* Two sets of runs.  Spec: the session operations, with the catalogue     *)
(* traffic they cause and the purchases.  SpecCatalog: every catalogue     *)
(* operation, under the session the page load restored.                    *)
(***************************************************************************)
Next ==
  \/ Reload
  \/ LoginFormSubmit
  \/ LoginFormSettle
  \/ RegisterFormSubmit
  \/ RegisterFormSettle
  \/ SetTab
  \/ Logout
  \/ FetchSweetsSettle
  \/ HandlePurchaseSubmit
  \/ HandlePurchaseSettle
  \/ AuthContextLoginCall
  \/ AuthContextLoginSettle
  \/ AuthContextRegisterCall
  \/ AuthContextRegisterSettle
  \/ AuthContextLogout
  \/ DashboardFetchSettle
  \/ SweetItemPurchaseCall
  \/ SweetItemPurchaseSettle
  \/ LocationReloadCommit

Spec == Init /\ [][Next]_vars

NextCatalog ==
  \/ Reload
  \/ FetchSweetsSettleInOrder
  \/ HandlePurchaseSubmit
  \/ HandlePurchaseSettle
  \/ EditOpen
  \/ EditCancel
  \/ HandleEditSubmitCall
  \/ HandleEditSubmitSettle
  \/ HandleDeleteCall
  \/ HandleDeleteSettle
  \/ AdminPanelHandleAddCall
  \/ AdminPanelHandleAddSettle
  \/ DashboardFetchSettleInOrder
  \/ SweetItemPurchaseCall
  \/ SweetItemPurchaseSettle
  \/ LocationReloadCommit
  \/ AdminAddSweetCall
  \/ AdminAddSweetSettle
  \/ AdminDeleteSweetCall
  \/ AdminDeleteSweetSettle

SpecCatalog == Init /\ [][NextCatalog]_vars

(***************************************************************************)
(* The HTTP client alone: apiFetch called once, on any storage, and        *)
(* settled by any response.                                                *)
(***************************************************************************)
InitHttp ==
  /\ variant = "fetch"
  /\ storage \in [token : StoredTokens, user : {Null}]
  /\ token = RestoreToken(storage)
  /\ user = RestoreUser(storage)
  /\ authHeader = Undef
  /\ inflight = <<>>
  /\ sweets = Arr(<<>>)
  /\ loading = FALSE
  /\ error = NoErrors
  /\ lastAuth = NoAuth
  /\ restored = RestoreToken(storage)
  /\ established = Present(RestoreToken(storage))
  /\ sent = [hdr |-> Undef, auth |-> NoAuth, restored |-> RestoreToken(storage)]
  /\ lastOp = "startup"
  /\ resp = NoResponse
  /\ outcome = NoOutcome
  /\ editing = Null
  /\ tab = "login"
  /\ busy = FALSE
  /\ saving = FALSE
  /\ reloading = FALSE
  /\ fetched = NoFetched
  /\ loggedOut = NotLoggedOut

\* apiFetch(path, init), up to the await of fetch().
ApiFetchCall ==
  /\ inflight = <<>>
  /\ inflight' = <<"request">>
  /\ sent' = [hdr |-> ApiFetchAuthorization(storage), auth |-> lastAuth, restored |-> restored]
  /\ lastOp' = "request"
  /\ UNCHANGED <<variant, reloading, saving, storage, token, user, authHeader, sweets, loading, error,
                 lastAuth, restored, established, resp, outcome, tab, busy, loggedOut, editing, fetched>>

\* apiFetch, from the response to its return or throw.
ApiFetchReturn ==
  \E res \in Responses :
    /\ inflight = <<"request">>
    /\ inflight' = <<>>
    /\ resp' = res
    /\ outcome' = ApiFetchSettle(res)
    /\ lastOp' = "request_" \o RespClass(res)
    /\ UNCHANGED <<variant, reloading, saving, storage, token, user, authHeader, sweets, loading, error,
                   sent, lastAuth, restored, established, editing, tab, busy, fetched, loggedOut>>

NextHttp == ApiFetchCall \/ ApiFetchReturn

SpecHttp == InitHttp /\ [][NextHttp]_vars

(***************************************************************************)
(* Properties.                                                             *)
(***************************************************************************)
IsToken(x) == x.ty = "string" /\ x.v \in Tokens
JsonContentType(ct) == ct \in {Str("application/json"), Str("application/json; charset=utf-8")}

\* C1: after a login has succeeded with returned token t, every request
\* started before the next logout or successful login carries
\* Authorization: Bearer t.
C1_RequestsCarryLoginToken ==
  (sent.auth.kind = "login" /\ IsToken(sent.auth.tok)) => sent.hdr = Bearer(sent.auth.tok)

\* C2: once logout has been called, and until a login succeeds, the token and
\* user cells are absent, storage has neither entry, and a request carries no
\* Authorization header; a logout that follows a logout changes nothing.
C2_LogoutClearsSession ==
  /\ [](lastAuth.kind = "logout" =>
          /\ ~Present(token) /\ ~Present(user)
          /\ storage.token = Null /\ storage.user = Null
          /\ HeaderNow(variant, storage, authHeader) = Undef)
  /\ [](sent.auth.kind = "logout" => sent.hdr = Undef)
  /\ [][(lastOp = "logout" /\ lastOp' = "logout") => UNCHANGED progVars]_vars

C2_Witness ==
  /\ lastAuth.kind = "logout"
  /\ sent.auth.kind = "logout"
  /\ lastOp = "logout"

\* C3: a startup that finds token t in storage is authenticated with t, has
\* sent no request to validate it, and every request started before a login
\* or logout carries Authorization: Bearer t.
C3_RestoredTokenIsSent ==
  /\ (lastOp = "startup" /\ Truthy(storage.token)) =>
       (token = storage.token /\ \A i \in DOMAIN inflight : inflight[i] = "getSweets")
  /\ Truthy(sent.restored) => sent.hdr = Bearer(sent.restored)

\* C4: after a login that returned (t, u) and no logout, a reload yields the
\* token t and the user u, and has started nothing but the page's GET /sweets.
C4_LoginSurvivesReload ==
  (lastOp = "startup" /\ lastAuth.kind = "login" /\ IsToken(lastAuth.tok) /\ lastAuth.usr \in Users) =>
    (token = lastAuth.tok /\ user = lastAuth.usr /\ inflight = <<"getSweets">>)

\* C5: the token is present exactly when a login or register has succeeded
\* and logout has not been called since.
C5_TokenIffEstablished == Present(token) <=> established

\* C6: the user is present only when the token is present.
C6_UserOnlyWithToken == Present(user) => Present(token)

\* C7: a login request that is refused or gets no response leaves the token,
\* the user, both storage entries and the Authorization header as they were,
\* and its rejection is surfaced to the caller: login() rejects ("axios"),
\* the form that submitted the request shows the message when that request
\* ends ("fetch"; a form no longer on the page has nothing to show it in).
C7_RejectedLoginChangesNothing ==
  [][lastOp' \in {"login_refused", "login_noresponse"} =>
       /\ UNCHANGED <<token, user, storage, authHeader>>
       /\ HeaderNow(variant, storage', authHeader') = HeaderNow(variant, storage, authHeader)
       /\ variant = "axios" => Present(error'.login)
       /\ (variant = "fetch" /\ busy /\ ~busy') => Present(error'.login)]_vars

C7_Witness ==
  /\ lastOp \in {"login_refused", "login_noresponse"}
  /\ ~Present(token)
  /\ Present(error.login)

\* C8: apiFetch, on a response with status 400..599, throws {status, data}
\* with the response's status and its body (parsed, or as text), and does
\* not return.
C8_ErrorStatusRejects ==
  (resp.kind = "http" /\ resp.status \in 400..599) =>
    /\ outcome.kind = "throw"
    /\ outcome.val.ty = "object"
    /\ DOMAIN outcome.val.v = {"status", "data"}
    /\ Get(outcome.val, "status") = Num(resp.status)
    /\ \/ Get(outcome.val, "data") = Str(resp.body)
       \/ JSONparse(resp.body).ok /\ Get(outcome.val, "data") = JSONparse(resp.body).val

C8_Witness ==
  /\ resp.kind = "http" /\ resp.status = 401
  /\ outcome.kind = "throw"
  /\ Get(outcome.val, "data") = MessageResp

\* C9 as stated: apiFetch, on a 200..299 response with a JSON content type,
\* returns the parsed JSON body, whatever the body.
C9_SuccessReturnsParsedJson ==
  (resp.kind = "http" /\ resp.status \in 200..299 /\ JsonContentType(resp.ct)) =>
    /\ outcome.kind = "return"
    /\ JSONparse(resp.body).ok
    /\ outcome.val = JSONparse(resp.body).val

\* C9 as amended: apiFetch, on a 200..299 response with a JSON content type,
\* returns; it returns the parsed JSON when the body is JSON text, and the
\* body's raw text when the body is empty or is not JSON text.
C9_SuccessReturnsJsonOrText ==
  (resp.kind = "http" /\ resp.status \in 200..299 /\ JsonContentType(resp.ct)) =>
    /\ outcome.kind = "return"
    /\ outcome.val = IF JSONparse(resp.body).ok THEN JSONparse(resp.body).val ELSE Str(resp.body)

C9_Witness ==
  /\ resp.kind = "http" /\ resp.status = 200
  /\ resp.ct = Str("application/json; charset=utf-8")
  /\ resp.body = HtmlText
  /\ outcome = [kind |-> "return", val |-> Str(HtmlText)]

\* The rejections apiFetch produces for the non-success statuses.
StatusRejections ==
  {ApiFetchSettle(h).val : h \in {r \in HttpResponses : r.status \notin 200..299}}

\* C10: apiFetch, on no response, throws an error that is none of its status
\* rejections and has no `status`, which every status rejection has.
C10_NetworkFailureIsDistinct ==
  resp.kind = "network" =>
    /\ outcome.kind = "throw"
    /\ outcome.val \notin StatusRejections
    /\ Get(outcome.val, "status") = Undef
    /\ \A r \in StatusRejections : Get(r, "status") # Undef

C10_Witness ==
  /\ resp.kind = "network"
  /\ outcome.kind = "throw"
  /\ outcome.val.ty = "error"

\* C11: when storage holds a token and a "user" entry that is not valid JSON,
\* the startup ends with the Session Manager holding that token and no user
\* (no error value takes the user's place).
C11_CorruptUserEntryIgnored ==
  (/\ lastOp = "startup"
   /\ Truthy(storage.token)
   /\ storage.user.ty = "string"
   /\ ~IsJsonText(storage.user.v))
  => (/\ token = storage.token
      /\ user = Null
      /\ restored = storage.token)

C11_Witness ==
  /\ variant = "fetch"
  /\ lastOp = "startup"
  /\ storage.token = Str("t1")
  /\ storage.user = Str("{corrupt")
  /\ token = Str("t1")
  /\ user = Null

\* An auth operation is in the middle of executing while its request awaits
\* the response (logout has no await).
AuthOperationRunning == \E i \in DOMAIN inflight : inflight[i] \in {"login", "register"}

\* A storage entry and a memory cell agree: both absent, or both present and
\* the entry is the text of the cell's value.
TokenWrittenThrough ==
  IF Present(token) THEN storage.token = token ELSE storage.token = Null
UserWrittenThrough ==
  IF Present(user)
    THEN /\ storage.user.ty = "string"
         /\ JSONparse(storage.user.v).ok
         /\ JSONparse(storage.user.v).val = user
    ELSE storage.user = Null

\* C12: write-through.  Once a login has succeeded or logout has been called,
\* whenever no login or register is in the middle of executing, the token and
\* the user in storage equal the token and the user in memory.
C12_WriteThrough ==
  (lastAuth.kind # "none" /\ ~AuthOperationRunning)
  => (TokenWrittenThrough /\ UserWrittenThrough)

MutationSuccess == {"purchase_success", "create_success", "update_success", "delete_success"}

\* C13: a step that handles the success of a create, update, delete or
\* purchase starts a GET /sweets; in the "axios" variant a successful purchase
\* asks for a reload of the page instead, the reload stays asked for until
\* a page loads, and the page load starts the GET /sweets.  And the list
\* changes only by becoming the body of the GET /sweets response the step
\* handles, a page load apart, which begins with the empty list.
C13_MutationsRefetch ==
  [][ /\ lastOp' \in MutationSuccess =>
           IF variant = "axios" /\ lastOp' = "purchase_success"
             THEN reloading'
             ELSE /\ inflight' # <<>>
                  /\ inflight'[Len(inflight')] = "getSweets"
                  /\ Count(inflight', "getSweets") = Count(inflight, "getSweets") + 1
      /\ (reloading /\ lastOp' # "startup") => reloading'
      /\ lastOp' = "startup" => (inflight' = <<"getSweets">> /\ sweets' = Arr(<<>>))
      /\ (sweets' # sweets /\ lastOp' # "startup") =>
           (lastOp' = "fetch_success" /\ sweets' = fetched'.applied)
    ]_vars

C13_Witness ==
  /\ lastOp = "update_success"
  /\ inflight # <<>>
  /\ inflight[Len(inflight)] = "getSweets"
  /\ sweets = Sweets1
  /\ fetched.applied = Sweets1

\* C14: from a logout until the response to a login or register submitted
\* after it arrives, the session is Anonymous in memory and in storage; the
\* responses of requests that were in flight at the logout do not change that.
C14_LogoutOutlivesPendingLogins ==
  loggedOut.out =>
    /\ ~Present(token)
    /\ ~Present(user)
    /\ storage.token = Null
    /\ storage.user = Null

\* C15: with overlapping GET /sweets requests answered in any order, a step
\* never applies the response of a request that started before one whose
\* response has been applied already (such a step takes one from
\* fetched.stale); and once no GET /sweets is in flight the list is the
\* response of the successful request that started latest.
C15_NewestFetchWins ==
  /\ [][lastOp' = "fetch_success" => fetched'.stale >= fetched.stale]_vars
  /\ []((Count(inflight, "getSweets") = 0 /\ fetched.newest # Null) => sweets = fetched.newest)

\* C16: when the session is Anonymous and a register request succeeds with a
\* body that has no token, the session stays Anonymous, storage receives no
\* token and no user value, and a request started next carries no
\* Authorization header, be it started by this page or after a reload.
C16_TokenlessRegisterKeepsAnonymous ==
  [][ (/\ lastOp' = "register_success_notoken"
       /\ ~Present(token)
       /\ ~Present(user)
       /\ storage.token = Null)
      => (/\ ~Present(token')
          /\ ~Present(user')
          /\ storage'.token = Null
          /\ storage'.user = storage.user
          /\ HeaderNow(variant, storage', authHeader') = Undef
          /\ ~Present(RestoreToken(storage'))
          /\ HeaderNow(variant, storage', Undef) = Undef)
    ]_vars
====
